---- MODULE Spec2Model ----
(***************************************************************************)
(* Model of the AI Voice Coach backend (src/app__.py; src/app.py is the    *)
(* earlier variant of the same handlers).                                  *)
(*                                                                         *)
(* Two subsystems share the process memory:                                *)
(*   - the conversation-token service: _TOKEN_CACHE, _get_eleven_token,    *)
(*     conversation_token;                                                 *)
(*   - the session intake: upload_session, blueprint_storage, the          *)
(*     summarizer and the delayed e-mail thread.                           *)
(*                                                                         *)
(* Strings whose characters matter (names, e-mails, transcripts) are       *)
(* sequences of one-character strings, so that strip(), len() and slicing  *)
(* are computed as Python computes them.                                   *)
(***************************************************************************)
EXTENDS Integers, Sequences, FiniteSets, TLC

(***************************************************************************)
(* Strings                                                                 *)
(***************************************************************************)
WS == {" "}

RECURSIVE LStrip(_)
LStrip(s) == IF s # <<>> /\ Head(s) \in WS THEN LStrip(Tail(s)) ELSE s

RECURSIVE RStrip(_)
RStrip(s) ==
    IF s # <<>> /\ s[Len(s)] \in WS THEN RStrip(SubSeq(s, 1, Len(s) - 1)) ELSE s

\* Variant: the value is used as received
StripNothing(s) == s

\* str.strip()
Strip(s) == RStrip(LStrip(s))

\* s[:n] for n >= 0
Prefix(s, n) == SubSeq(s, 1, IF n < Len(s) THEN n ELSE Len(s))

\* An optional string (None or a str): request.args.get / request.form.get
None == [present |-> FALSE, value |-> <<>>]
Some(s) == [present |-> TRUE, value |-> s]

\* (x or "")
OrEmpty(x) == IF x.present /\ x.value # <<>> THEN x.value ELSE <<>>

(***************************************************************************)
(* Time.  The clock is read in whole seconds at the sampled instants       *)
(* ClockValues; the instants are chosen so that ages just below, at and    *)
(* above the cache lifetime occur.                                         *)
(***************************************************************************)
ClockValues == {0, 1, 55}

\* timedelta(seconds=55)
TTL == 55

\* datetime.min: the timestamp of an absent cache entry
DatetimeMin == -2000000000

(***************************************************************************)
(* Upstream (ElevenLabs) responses                                         *)
(***************************************************************************)
\* for k in ("token", "access_token", "conversation_token")
TokenKeys == <<"token", "access_token", "conversation_token">>

\* Variant: data is looked into before conversation
ContainersDataFirst == <<"data", "conversation", "result">>

\* for c in ("conversation", "data", "result")
Containers == <<"conversation", "data", "result">>
KeySet == {TokenKeys[i] : i \in 1..3}
ContainerSet == {Containers[i] : i \in 1..3}

\* JSON values under a key: "absent" (no such key), "" (empty string),
\* "nonstr" (a value that is not a str), or a non-empty string.
NoObj == [k \in KeySet |-> "absent"]
NotDict == [isdict |-> FALSE, obj |-> NoObj]
MkPayload(direct, nested) == [direct |-> direct, nested |-> nested]

\* isinstance(v, str) and v
IsToken(v) == v \notin {"absent", "", "nonstr"}

RECURSIVE FirstIn(_, _)
\* first non-empty string among obj[k], k in TokenKeys order from i on; "absent" if none
FirstIn(obj, i) ==
    IF i > 3 THEN "absent"
    ELSE IF IsToken(obj[TokenKeys[i]]) THEN obj[TokenKeys[i]]
    ELSE FirstIn(obj, i + 1)

RECURSIVE FirstNested(_, _)
FirstNested(payload, c) ==
    IF c > 3 THEN "absent"
    ELSE LET n == payload.nested[Containers[c]] IN
         IF n.isdict /\ FirstIn(n.obj, 1) # "absent" THEN FirstIn(n.obj, 1)
         ELSE FirstNested(payload, c + 1)

\* _extract_token: "absent" stands for None
ExtractToken(payload) ==
    IF FirstIn(payload.direct, 1) # "absent" THEN FirstIn(payload.direct, 1)
    ELSE FirstNested(payload, 1)

NoNested == [c \in ContainerSet |-> NotDict]
PayloadEmpty == MkPayload(NoObj, NoNested)
PayloadTokA == MkPayload([NoObj EXCEPT !["token"] = "tokA"], NoNested)
PayloadTokB ==
    MkPayload([NoObj EXCEPT !["token"] = ""],
              [NoNested EXCEPT !["data"] =
                  [isdict |-> TRUE, obj |-> [NoObj EXCEPT !["access_token"] = "tokB"]]])

\* What one session.request call can produce: a RequestException, or a
\* response with a status code and a body that is JSON (a payload) or not.
Exc == [kind |-> "exception", status |-> 0, json |-> FALSE, payload |-> PayloadEmpty]
Resp(status, payload) ==
    [kind |-> "response", status |-> status, json |-> TRUE, payload |-> payload]
RespText(status) ==
    [kind |-> "response", status |-> status, json |-> FALSE, payload |-> PayloadEmpty]

\* Upstream behaviours of the fetcher runs: every failure branch, both sides
\* of the status test, and tokens at the top level and in a container.
FetchOutcomes ==
    { Exc, RespText(200), Resp(200, PayloadEmpty), Resp(400, PayloadTokA),
      Resp(200, PayloadTokA), Resp(399, PayloadTokB) }

\* Upstream behaviours of the cache runs: failure or a token.
CacheOutcomes == { Resp(404, PayloadEmpty), Resp(200, PayloadTokA), Resp(200, PayloadTokB) }

\* Upstream behaviours of the runs that vary the request's name
NameOutcomes == { Resp(404, PayloadEmpty), Resp(200, PayloadTokA) }

(***************************************************************************)
(* The shared HTTP session: session.mount(..., HTTPAdapter(max_retries=    *)
(* Retry(total=3, backoff_factor=0.35, status_forcelist=..., allowed_      *)
(* methods={POST, GET}))).  Every request of the program is a POST or a    *)
(* GET, so every request is subject to it.                                 *)
(***************************************************************************)
\* Retry(total=3, ...): retransmissions per request
RETRY_TOTAL == 3

\* status_forcelist
STATUS_FORCELIST == {429, 500, 502, 503, 504}

\* Retry.RETRY_AFTER_STATUS_CODES: with respect_retry_after_header left at
\* its default, a response of one of these statuses that carries a
\* Retry-After header is repeated as well
RETRY_AFTER_STATUS_CODES == {413, 429, 503}

\* A response that carries a Retry-After header
RetryAfter(status) ==
    [kind |-> "retry_after", status |-> status, json |-> FALSE, payload |-> PayloadEmpty]

\* Variant: every error status is repeated
RetryableAnyError(o) == o.kind = "exception" \/ o.status >= 400

\* Retry.is_retry and the connection/read error paths: the adapter repeats a
\* transmission that failed in transport, one whose status is in the force
\* list, and one that answers Retry-After with a status of
\* RETRY_AFTER_STATUS_CODES
Retryable(o) ==
    \/ o.kind = "exception"
    \/ o.status \in STATUS_FORCELIST
    \/ (o.kind = "retry_after" /\ o.status \in RETRY_AFTER_STATUS_CODES)

\* Variant: one retransmission more
RetriesLeftMore(tx) == tx - 1 <= RETRY_TOTAL

\* Retry.increment / is_exhausted: after tx transmissions, tx - 1 of the
\* total retransmissions are used up
RetriesLeft(tx) == tx - 1 < RETRY_TOTAL

\* What session.request hands to its caller when the adapter stops at a
\* transmission with outcome x: the ConnectionError / RetryError raised for a
\* transport failure or a force-list status, the response otherwise
Delivered(x) ==
    IF x.kind = "exception" \/ x.status \in STATUS_FORCELIST THEN Exc
    ELSE IF x.kind = "retry_after" THEN RespText(x.status)
    ELSE x

\* Outcomes of single transmissions of the retry runs: transport failure,
\* force-list status, Retry-After on 413, a status that is not repeated, and
\* a token
TxOutcomes ==
    { Exc, Resp(503, PayloadEmpty), RetryAfter(413), Resp(404, PayloadEmpty),
      Resp(200, PayloadTokA) }

FixedUrls == <<"convai/conversations", "convai/conversation/token", "convai/conversation">>
\* Variant: GET is tried before POST
MethodsGetFirst == <<"GET", "POST">>

\* for method in ("POST", "GET")
Methods == <<"POST", "GET">>


(***************************************************************************)
(* State                                                                   *)
(***************************************************************************)
VARIABLES
    now,               \* the wall clock, in seconds
    ELEVEN_API_KEY,    \* configuration read at start-up ("" when unset)
    AGENT_ID,
    ELEVEN_TOKEN_URL,  \* optional override endpoint ("" when unset)
    TOKEN_CACHE,       \* _TOKEN_CACHE: cache key -> [token, ts]
    ct,                \* per worker thread: the conversation_token call it runs
    GEMINI_API_KEY,    \* summarizer credential ("" when unset)
    blueprint_storage, \* blueprint id -> record
    files,             \* DATA_DIR: session file name -> text written
    jobs,              \* the e-mail threads started, in start order
    up,                \* per worker thread: the upload_session call it runs
    SENDGRID_API_KEY,  \* e-mail credential ("" when unset)
    SMTP_HOST,         \* SMTP fallback host ("" when unset); SMTP_USER and
                       \* SMTP_PASSWORD are set exactly when it is
    vw,                \* the view_blueprint call of the browser client
    ex                 \* a call of _extract_token: its payload and its result

tokenVars == <<ELEVEN_API_KEY, AGENT_ID, ELEVEN_TOKEN_URL, TOKEN_CACHE, ct, ex>>
intakeCfg == <<GEMINI_API_KEY, SENDGRID_API_KEY, SMTP_HOST>>
intakeVars == <<intakeCfg, blueprint_storage, files, jobs, up, vw>>
vars == <<now, tokenVars, intakeVars>>

\* Worker threads of the web server that serve /conversation-token
Workers == {"w1", "w2"}

NoToken == "absent"

NoDetails == [empty |-> TRUE, attempts |-> <<>>]
NoMessage == [text |-> "", istuple |-> FALSE, attempts |-> <<>>]
NoResponse ==
    [status |-> 0, token |-> NoToken, message |-> NoMessage, details |-> NoDetails]

IdleCall ==
    [pc |-> "idle", raw |-> None, cache_key |-> <<>>, participant |-> None,
     fetched |-> FALSE,
     ui |-> 1, mi |-> 1, tx |-> 0, ltx |-> 0, tried |-> <<>>, contacted |-> <<>>, last |-> Exc,
     token |-> NoToken, ts |-> 0, resp |-> NoResponse]

\* Variant: the unset override is not filtered out
CandidateUrlsUnfiltered(override) == <<override>> \o FixedUrls

\* [u for u in _candidate_urls() if u]
CandidateUrls(override) ==
    IF override # "" THEN <<override>> \o FixedUrls ELSE FixedUrls

\* Variant: every request looks up the entry of the key ""
CacheGetAnonymous(cache, key) ==
    IF <<>> \in DOMAIN cache THEN cache[<<>>] ELSE [token |-> NoToken, ts |-> DatetimeMin]

\* _TOKEN_CACHE.get(cache_key, (None, datetime.min))
CacheGet(cache, key) ==
    IF key \in DOMAIN cache THEN cache[key] ELSE [token |-> NoToken, ts |-> DatetimeMin]

\* A call of _extract_token that has not run yet
IdleExtract(payload) == [pc |-> "idle", payload |-> payload, token |-> NoToken]

\* Variant: the cache is replaced by the one new entry
CachePutOnly(cache, key, token, ts) == [k \in {key} |-> [token |-> token, ts |-> ts]]

\* Variant: an existing entry keeps its timestamp
CachePutKeepStamp(cache, key, token, ts) ==
    [k \in (DOMAIN cache) \cup {key} |->
        IF k = key
          THEN [token |-> token, ts |-> IF key \in DOMAIN cache THEN cache[key].ts ELSE ts]
          ELSE cache[k]]

\* _TOKEN_CACHE[cache_key] = (token, ts)
CachePut(cache, key, token, ts) ==
    [k \in (DOMAIN cache) \cup {key} |->
        IF k = key THEN [token |-> token, ts |-> ts] ELSE cache[k]]

\* Variant: the entry is still served at an age of exactly 55 seconds
IsFreshInclusive(ts, t) == (t - ts) <= TTL

\* (datetime.now() - ts) < timedelta(seconds=55)
IsFresh(ts, t) == (t - ts) < TTL

\* token and (now - ts) < 55s
CacheHit(entry, t) == entry.token # NoToken /\ IsFresh(entry.ts, t)

\* Variant: the agent id is not tested
ConfigErrorKeyOnly(key, agent) == IF key = "" THEN "Missing ELEVEN_API_KEY" ELSE ""

\* The configuration test at the head of _get_eleven_token: the message of the
\* RuntimeError it raises, "" when it raises none.
ConfigError(key, agent) ==
    IF key = "" THEN "Missing ELEVEN_API_KEY"
    ELSE IF agent = "" THEN "Missing AGENT_ID or ELEVEN_AGENT_ID"
    ELSE ""

\* An exception object: its class and its args.
RuntimeError1(text) == [type |-> "RuntimeError", nargs |-> 1, text |-> text, attempts |-> <<>>]
RuntimeError2(text, attempts) ==
    [type |-> "RuntimeError", nargs |-> 2, text |-> text, attempts |-> attempts]

\* isinstance(e, tuple)
IsTuple(e) == e.type = "tuple"

\* details = {} if not isinstance(e, tuple) or len(e) < 2 else e[1]
DetailsOf(e) ==
    IF ~IsTuple(e) \/ e.nargs < 2 THEN NoDetails
    ELSE [empty |-> FALSE, attempts |-> e.attempts]

\* str(e): the single argument, or the repr of the argument tuple
StrOf(e) ==
    IF e.nargs = 1 THEN [text |-> e.text, istuple |-> FALSE, attempts |-> <<>>]
    ELSE [text |-> e.text, istuple |-> TRUE, attempts |-> e.attempts]

\* Variant: the error answer carries a token all the same
ErrorResponseWithToken(e) ==
    [status |-> 502, token |-> "tokA", message |-> StrOf(e), details |-> DetailsOf(e)]

\* The except branch of conversation_token
ErrorResponse(e) ==
    [status |-> 502, token |-> NoToken, message |-> StrOf(e), details |-> DetailsOf(e)]

\* jsonify({"token": token})
TokenResponse(token) ==
    [status |-> 200, token |-> token, message |-> NoMessage, details |-> NoDetails]

\* resp.status_code < 400
StatusOk(status) == status < 400

\* The entry appended to `tried` for a failed attempt
TriedEntry(url, method, o) ==
    IF o.kind = "exception"
      THEN [url |-> url, method |-> method, status |-> 0, error |-> "request_exception"]
    ELSE IF StatusOk(o.status)
      THEN [url |-> url, method |-> method, status |-> o.status,
            error |-> IF o.json THEN "no_token_in_payload" ELSE "non_json"]
    ELSE [url |-> url, method |-> method, status |-> o.status, error |-> "status"]

\* Variant: the status code is not tested before the body is read
AttemptTokenAnyStatus(o) ==
    IF o.kind = "response" /\ o.json THEN ExtractToken(o.payload) ELSE NoToken

\* Variant: the name is forwarded even when it is empty
ParticipantAlways(name) == Some(name)

\* name if name else None: the participant_name sent upstream
Participant(name) == IF name # <<>> THEN Some(name) ELSE None

\* The token an attempt yields, NoToken when it fails
AttemptToken(o) ==
    IF o.kind = "response" /\ StatusOk(o.status) /\ o.json
      THEN ExtractToken(o.payload)
      ELSE NoToken

(***************************************************************************)
(* conversation_token                                                      *)
(***************************************************************************)
\* Lines 228-235: read the name, look the cache up; on a miss enter
\* _get_eleven_token, whose configuration test may raise at once.
TokenBegin(w, rawName) ==
    /\ ct[w].pc = "idle"
    /\ LET name == Strip(OrEmpty(rawName))
           cache_key == name
           entry == CacheGet(TOKEN_CACHE, cache_key)
           cfg == ConfigError(ELEVEN_API_KEY, AGENT_ID)
           base == [IdleCall EXCEPT !.raw = rawName, !.cache_key = cache_key]
       IN  IF CacheHit(entry, now)
             THEN ct' = [ct EXCEPT ![w] =
                           [base EXCEPT !.pc = "done", !.resp = TokenResponse(entry.token)]]
           ELSE IF cfg # ""
             THEN ct' = [ct EXCEPT ![w] =
                           [base EXCEPT !.pc = "done", !.fetched = TRUE,
                                        !.resp = ErrorResponse(RuntimeError1(cfg))]]
           ELSE ct' = [ct EXCEPT ![w] =
                           [base EXCEPT !.pc = "fetch", !.fetched = TRUE,
                                        !.participant = Participant(name)]]
    /\ UNCHANGED <<now, ex, ELEVEN_API_KEY, AGENT_ID, ELEVEN_TOKEN_URL, TOKEN_CACHE, intakeVars>>

\* One iteration of the loops of _get_eleven_token (lines 160-190) from the
\* return of session.request on: c is the call's state, o what the request
\* produced with its last transmission.  The request is logged in
\* `contacted`, and the number of its transmissions is kept in ltx.
AfterRequest(c, o) ==
    LET urls == CandidateUrls(ELEVEN_TOKEN_URL)
        url == urls[c.ui]
        method == Methods[c.mi]
        sent == [url |-> url, method |-> method, participant |-> c.participant]
        token == AttemptToken(o)
        last == c.ui = Len(urls) /\ c.mi = Len(Methods)
        tried == Append(c.tried, TriedEntry(url, method, o))
        c1 == [c EXCEPT !.contacted = Append(c.contacted, sent), !.last = o,
                        !.tx = 0, !.ltx = c.tx + 1]
    IN  IF token # NoToken
          THEN [c1 EXCEPT !.pc = "stamp", !.token = token]
        ELSE IF last
          THEN [c1 EXCEPT !.pc = "done", !.tried = <<>>, !.last = Exc,
                  !.resp = ErrorResponse(
                             RuntimeError2("All token endpoints failed", tried))]
        ELSE [c1 EXCEPT !.tried = tried,
                        !.ui = IF c.mi = Len(Methods) THEN c.ui + 1 ELSE c.ui,
                        !.mi = IF c.mi = Len(Methods) THEN 1 ELSE c.mi + 1]

\* One iteration of the loops of _get_eleven_token (lines 160-190): one
\* session.request that ends with the transmission in hand, and the handling
\* of its outcome o.
TokenAttempt(w, o) ==
    /\ ct[w].pc = "fetch"
    /\ ct' = [ct EXCEPT ![w] = AfterRequest(ct[w], o)]
    /\ UNCHANGED <<now, ex, ELEVEN_API_KEY, AGENT_ID, ELEVEN_TOKEN_URL, TOKEN_CACHE, intakeVars>>

\* One transmission of the session.request in progress, with outcome x: the
\* adapter transmits again when x is retryable and retransmissions remain;
\* otherwise the request ends and the fetcher handles what it delivers.
TokenTransmit(w, x) ==
    /\ ct[w].pc = "fetch"
    /\ LET c == ct[w]
           tx == c.tx + 1
       IN  IF Retryable(x) /\ RetriesLeft(tx)
             THEN ct' = [ct EXCEPT ![w] = [c EXCEPT !.tx = tx, !.last = x]]
             ELSE ct' = [ct EXCEPT ![w] = AfterRequest(c, Delivered(x))]
    /\ UNCHANGED <<now, ex, ELEVEN_API_KEY, AGENT_ID, ELEVEN_TOKEN_URL, TOKEN_CACHE, intakeVars>>

\* Line 236, right-hand side: _get_eleven_token has returned (its local list
\* `tried` is gone) and datetime.now(timezone.utc) is evaluated
TokenStamp(w) ==
    /\ ct[w].pc = "stamp"
    /\ ct' = [ct EXCEPT ![w].pc = "store", ![w].ts = now,
                         ![w].tried = <<>>, ![w].last = Exc]
    /\ UNCHANGED <<now, ex, ELEVEN_API_KEY, AGENT_ID, ELEVEN_TOKEN_URL, TOKEN_CACHE, intakeVars>>

\* Lines 236-237: the cache entry is written and the token returned
TokenStore(w) ==
    /\ ct[w].pc = "store"
    /\ TOKEN_CACHE' = CachePut(TOKEN_CACHE, ct[w].cache_key, ct[w].token, ct[w].ts)
    /\ ct' = [ct EXCEPT ![w].pc = "done", ![w].ts = 0,
                         ![w].resp = TokenResponse(ct[w].token)]
    /\ UNCHANGED <<now, ex, ELEVEN_API_KEY, AGENT_ID, ELEVEN_TOKEN_URL, intakeVars>>

\* The response has been sent; the worker is free for the next request
TokenReturn(w) ==
    /\ ct[w].pc = "done"
    /\ ct' = [ct EXCEPT ![w] = IdleCall]
    /\ UNCHANGED <<now, ex, ELEVEN_API_KEY, AGENT_ID, ELEVEN_TOKEN_URL, TOKEN_CACHE, intakeVars>>

\* token = _extract_token(payload), on the payload of the call
ExtractCall ==
    /\ ex.pc = "idle"
    /\ ex' = [ex EXCEPT !.pc = "done", !.token = ExtractToken(ex.payload)]
    /\ UNCHANGED <<now, ELEVEN_API_KEY, AGENT_ID, ELEVEN_TOKEN_URL, TOKEN_CACHE, ct,
                   intakeVars>>


(***************************************************************************)
(* Session intake                                                          *)
(***************************************************************************)
\* int(os.getenv("MAX_TRANSCRIPT_CHARS", "20000")): the deployment modelled
\* configures a small maximum, just above the excerpt length of the fallback
\* summaries, so that transcripts on both sides of either length occur.
MAX_TRANSCRIPT_CHARS == 201

\* Successful intakes per run
MaxIntakes == 2

\* random.randint(a, b): both ends included
RandInt(a, b) == a..b

\* The excerpt length of the summarizer's fallback texts
EXCERPT_CHARS == 200

NoContent == [label |-> "", excerpt |-> <<>>, text |-> ""]

\* Variant: the fallback texts quote the whole transcript
FallbackWhole(label, transcript) ==
    [label |-> label, excerpt |-> transcript, text |-> ""]

\* f"CONVERSATION SUMMARY ({label}):\n{transcript[:200]}..."
Fallback(label, transcript) ==
    [label |-> label, excerpt |-> Prefix(transcript, EXCERPT_CHARS), text |-> ""]

\* What the Gemini call can produce: session.post raises ("exception"),
\* raise_for_status raises ("status"), r.json() raises ("non_json"), the body
\* has no candidates or no parts ("no_candidates"), the body lacks the
\* expected structure so that indexing it raises ("malformed"), or the first
\* part's stripped text is `text` (possibly "").
GeminiError == [kind |-> "exception", text |-> ""]
GeminiStatus == [kind |-> "status", text |-> ""]
GeminiNonJson == [kind |-> "non_json", text |-> ""]
GeminiMalformed == [kind |-> "malformed", text |-> ""]
GeminiNoCandidates == [kind |-> "no_candidates", text |-> ""]
GeminiText(text) == [kind |-> "text", text |-> text]
GeminiOutcomes == {GeminiError, GeminiNoCandidates, GeminiText(""), GeminiText("summary")}
GeminiFailures ==
    {GeminiError, GeminiStatus, GeminiNonJson, GeminiMalformed, GeminiNoCandidates,
     GeminiText("")}

\* The call is not made (no API key)
GeminiNotCalled == [kind |-> "not_called", text |-> ""]

\* What was raised inside the try block, caught by `except Exception`
GeminiRaised(g) == g.kind \in {"exception", "status", "non_json", "malformed"}

\* Variant: the provider's text is returned as it is, even when empty
CallGeminiUnguarded(key, transcript, g) ==
    IF key = "" THEN Fallback("API Key Missing", transcript)
    ELSE IF GeminiRaised(g) THEN Fallback("Gemini API Error", transcript)
    ELSE IF g.kind = "no_candidates" THEN Fallback("Gemini Empty Response", transcript)
    ELSE [label |-> "", excerpt |-> <<>>, text |-> g.text]

\* _call_gemini_mindmap_blueprint
CallGemini(key, transcript, g) ==
    IF key = "" THEN Fallback("API Key Missing", transcript)
    ELSE IF GeminiRaised(g) THEN Fallback("Gemini API Error", transcript)
    ELSE IF g.kind = "no_candidates" THEN Fallback("Gemini Empty Response", transcript)
    ELSE IF g.text = "" THEN Fallback("empty", transcript)
    ELSE [label |-> "", excerpt |-> <<>>, text |-> g.text]

\* _absolute_url: request.host_url is "http://host/"; the scheme becomes https
\* when X-Forwarded-Proto says so.
AbsoluteUrl(proto, path) ==
    [scheme |-> IF proto.present /\ proto.value = "https" THEN "https" ELSE "http",
     path |-> path]

\* Variant: no truncation
TruncateNone(transcript) == transcript

\* len(transcript) > MAX_TRANSCRIPT_CHARS -> transcript[:MAX_TRANSCRIPT_CHARS]
Truncate(transcript) ==
    IF Len(transcript) > MAX_TRANSCRIPT_CHARS
      THEN Prefix(transcript, MAX_TRANSCRIPT_CHARS)
      ELSE transcript

\* f"{stamp}_{session_id}"
BlueprintId(stamp, session_id) == [stamp |-> stamp, session_id |-> session_id]

NoId == BlueprintId(0 - 1, "")
NoLink == [scheme |-> "", path |-> NoId]

NoUploadResponse ==
    [status |-> 0, error |-> "", scheduled_in_seconds |-> 0,
     blueprint_id |-> NoId, blueprint_url |-> NoLink]

\* A worker's upload_session call: the form received, the locals email,
\* transcript, stamp, session_id and blueprint, whether the transcript file
\* was written (saved), what the summarizer's provider call did (gemini), and
\* the response.
IdleUpload ==
    [pc |-> "idle", form |-> [email |-> None, transcript |-> None],
     email |-> <<>>, transcript |-> <<>>, stamp |-> 0,
     session_id |-> "", saved |-> FALSE, gemini |-> GeminiNotCalled,
     blueprint |-> NoContent, summarized |-> FALSE, resp |-> NoUploadResponse]

BadRequest(error) == [NoUploadResponse EXCEPT !.status = 400, !.error = error]

\* dict assignment blueprint_storage[blueprint_id] = record
StorePut(store, id, record) ==
    [k \in (DOMAIN store) \cup {id} |-> IF k = id THEN record ELSE store[k]]

\* Uploads that passed validation and have not started their e-mail thread yet
InProgress == {w \in Workers : up[w].pc = "summarize"}

\* Variant: a failed write of the transcript file ends the request
AfterWriteFatal(writeOk) == IF writeOk THEN "summarize" ELSE "done"

\* Lines 312-315: try: write_text(...) except Exception: print(...); the
\* handler goes on to the summarizer either way
AfterWrite(writeOk) == "summarize"

\* Variant: the e-mail function is called in the request thread, which
\* returns when the mail has been handled
NewJobInline(email, link, delay_seconds, t) ==
    [email |-> email, link |-> link, delay_seconds |-> delay_seconds,
     pc |-> "done", started |-> t, tx |-> 0, sends |-> <<>>, ok |-> FALSE]

\* threading.Thread(target=_delayed_email_with_link,
\*                  args=(email, blueprint_link, delay_seconds)).start():
\* the thread starts at instant t with its sleep; tx counts the SendGrid
\* transmissions of its _send_email call, sends logs its send attempts, ok is
\* what _send_email returned.
NewJob(email, link, delay_seconds, t) ==
    [email |-> email, link |-> link, delay_seconds |-> delay_seconds,
     pc |-> "sleeping", started |-> t, tx |-> 0, sends |-> <<>>, ok |-> FALSE]

\* Lines 299-315: validation, truncation, stamp and session id, and the
\* best-effort write of the transcript file (writeOk: whether write_text
\* succeeds).
UploadBegin(w, rawEmail, rawTranscript, sid, writeOk) ==
    /\ up[w].pc = "idle"
    /\ Len(jobs) + Cardinality(InProgress) < MaxIntakes
    /\ LET email == Strip(OrEmpty(rawEmail))
           stripped == Strip(OrEmpty(rawTranscript))
           transcript == Truncate(stripped)
           id == BlueprintId(now, sid)
           base == [IdleUpload EXCEPT
                       !.form = [email |-> rawEmail, transcript |-> rawTranscript]]
       IN  IF email = <<>>
             THEN /\ up' = [up EXCEPT ![w] =
                      [base EXCEPT !.pc = "done", !.resp = BadRequest("Missing email")]]
                  /\ files' = files
           ELSE IF stripped = <<>>
             THEN /\ up' = [up EXCEPT ![w] =
                      [base EXCEPT !.pc = "done",
                                   !.resp = BadRequest("Missing transcript")]]
                  /\ files' = files
           ELSE /\ up' = [up EXCEPT ![w] =
                      [base EXCEPT !.pc = AfterWrite(writeOk), !.email = email,
                                         !.transcript = transcript, !.stamp = now,
                                         !.session_id = sid, !.saved = writeOk]]
                /\ files' = IF writeOk THEN StorePut(files, id, transcript) ELSE files
    /\ UNCHANGED <<now, tokenVars, intakeCfg, vw, blueprint_storage, jobs>>

\* Lines 317-341: the summarizer call (outcome g), the insertion of the
\* record, the link, the random delay, the start of the e-mail thread and
\* the response.
UploadSummarize(w, g, delay, proto) ==
    /\ up[w].pc = "summarize"
    /\ LET u == up[w]
           blueprint == CallGemini(GEMINI_API_KEY, u.transcript, g)
           blueprint_id == BlueprintId(u.stamp, u.session_id)
           record == [content |-> blueprint, email |-> u.email, created |-> now,
                      session_id |-> u.session_id]
           blueprint_link == AbsoluteUrl(proto, blueprint_id)
       IN  /\ blueprint_storage' = StorePut(blueprint_storage, blueprint_id, record)
           /\ jobs' = Append(jobs, NewJob(u.email, blueprint_link, delay, now))
           /\ up' = [up EXCEPT ![w] =
                  [u EXCEPT !.pc = "done", !.summarized = TRUE,
                            !.blueprint = blueprint,
                            !.gemini = IF GEMINI_API_KEY = "" THEN GeminiNotCalled
                                       ELSE g,
                            !.resp = [status |-> 200, error |-> "",
                                      scheduled_in_seconds |-> delay,
                                      blueprint_id |-> blueprint_id,
                                      blueprint_url |-> blueprint_link]]]
    /\ UNCHANGED <<now, tokenVars, intakeCfg, vw, files>>

\* The response has been sent; the worker is free for the next request
UploadReturn(w) ==
    /\ up[w].pc = "done"
    /\ up' = [up EXCEPT ![w] = IdleUpload]
    /\ UNCHANGED <<now, tokenVars, intakeCfg, vw, blueprint_storage, files, jobs>>

(***************************************************************************)
(* The blueprint page                                                      *)
(***************************************************************************)
NoPage == [email |-> <<>>, created |-> 0, content |-> NoContent]
IdleView == [pc |-> "idle", blueprint_id |-> NoId, status |-> 0, page |-> NoPage]

\* render_template_string(template, **blueprint_data): the page shows the
\* record's email, created and content
Render(record) ==
    [email |-> record.email, created |-> record.created, content |-> record.content]

\* view_blueprint: 404 for an id that is not a key of blueprint_storage,
\* the page of the stored record otherwise
ViewBlueprint(id) ==
    /\ vw.pc = "idle"
    /\ vw' = IF id \notin DOMAIN blueprint_storage
               THEN [pc |-> "done", blueprint_id |-> id, status |-> 404, page |-> NoPage]
               ELSE [pc |-> "done", blueprint_id |-> id, status |-> 200,
                     page |-> Render(blueprint_storage[id])]
    /\ UNCHANGED <<now, tokenVars, intakeCfg, blueprint_storage, files, jobs, up>>

\* The page or the 404 has been sent
ViewReturn ==
    /\ vw.pc = "done"
    /\ vw' = IdleView
    /\ UNCHANGED <<now, tokenVars, intakeCfg, blueprint_storage, files, jobs, up>>


(***************************************************************************)
(* The delayed e-mail thread                                               *)
(***************************************************************************)
\* One transmission of the SendGrid POST: a connection error or a status
MailExc == [kind |-> "exception", status |-> 0]
MailResp(status) == [kind |-> "response", status |-> status]
SendGridOutcomes == {MailExc, MailResp(202), MailResp(400), MailResp(503)}

\* r.status_code in (200, 202)
Accepted(o) == o.kind = "response" /\ o.status \in {200, 202}

\* Variant: the sleep never returns
SleepOverNever(job, t) == FALSE

\* Variant: the thread does not sleep
SleepOverAtOnce(job, t) == TRUE

\* time.sleep(delay_seconds), entered when the thread starts, returns once
\* delay_seconds have passed
SleepOver(job, t) == t - job.started >= job.delay_seconds

\* _send_email, "2) SMTP fallback (optional)": where the call goes when
\* SendGrid is not configured or has failed
AfterSendGrid(smtpHost) == IF smtpHost # "" THEN "smtp" ELSE "done"

\* _send_email, "1) SendGrid (preferred)": where the call starts
SendEntry(sendgridKey, smtpHost) ==
    IF sendgridKey # "" THEN "sendgrid" ELSE AfterSendGrid(smtpHost)

\* _delayed_email_with_link: the sleep is over and _send_email is called
JobWake(i) ==
    /\ i \in 1..Len(jobs)
    /\ jobs[i].pc = "sleeping"
    /\ SleepOver(jobs[i], now)
    /\ jobs' = [jobs EXCEPT ![i].pc = SendEntry(SENDGRID_API_KEY, SMTP_HOST)]
    /\ UNCHANGED <<now, tokenVars, intakeCfg, vw, blueprint_storage, files, up>>

\* _send_email, SendGrid branch: one transmission of session.post with
\* outcome o.  200/202 returns True; a retryable failure is transmitted
\* again while retries remain; any other failure (an error status, or the
\* RetryError / ConnectionError raised when the retries are used up) is
\* printed and the call falls through to SMTP.
JobSendGrid(i, o) ==
    /\ i \in 1..Len(jobs)
    /\ jobs[i].pc = "sendgrid"
    /\ LET j == jobs[i]
           tx == j.tx + 1
           sent == [j EXCEPT !.tx = tx, !.sends = Append(j.sends, "sendgrid")]
       IN  jobs' = [jobs EXCEPT ![i] =
                IF Accepted(o) THEN [sent EXCEPT !.pc = "done", !.ok = TRUE]
                ELSE IF Retryable(o) /\ RetriesLeft(tx) THEN sent
                ELSE [sent EXCEPT !.pc = AfterSendGrid(SMTP_HOST)]]
    /\ UNCHANGED <<now, tokenVars, intakeCfg, vw, blueprint_storage, files, up>>

\* _send_email, SMTP branch: one connection, login and sendmail; True when
\* it succeeds (ok), False when it raises
JobSmtp(i, ok) ==
    /\ i \in 1..Len(jobs)
    /\ jobs[i].pc = "smtp"
    /\ jobs' = [jobs EXCEPT ![i].pc = "done", ![i].ok = ok,
                             ![i].sends = Append(jobs[i].sends, "smtp")]
    /\ UNCHANGED <<now, tokenVars, intakeCfg, vw, blueprint_storage, files, up>>


(***************************************************************************)
(* The clock                                                               *)
(***************************************************************************)
Tick(instants) ==
    /\ \E t \in instants : t > now /\ now' = t
    /\ UNCHANGED <<tokenVars, intakeVars>>


(***************************************************************************)
(* Initial state and specifications                                        *)
(***************************************************************************)
EmptyMap == [k \in {} |-> 0]

\* The state after start-up under a configuration drawn from the given sets
InitRest(apiKeys, agentIds, tokenUrls, geminiKeys, sendgridKeys, smtpHosts) ==
    /\ now = 0
    /\ ELEVEN_API_KEY \in apiKeys
    /\ AGENT_ID \in agentIds
    /\ ELEVEN_TOKEN_URL \in tokenUrls
    /\ TOKEN_CACHE = EmptyMap
    /\ ct = [w \in Workers |-> IdleCall]
    /\ GEMINI_API_KEY \in geminiKeys
    /\ SENDGRID_API_KEY \in sendgridKeys
    /\ SMTP_HOST \in smtpHosts
    /\ blueprint_storage = EmptyMap
    /\ files = EmptyMap
    /\ jobs = <<>>
    /\ up = [w \in Workers |-> IdleUpload]
    /\ vw = IdleView

\* The same with an empty payload for _extract_token
InitState(apiKeys, agentIds, tokenUrls, geminiKeys, sendgridKeys, smtpHosts) ==
    /\ InitRest(apiKeys, agentIds, tokenUrls, geminiKeys, sendgridKeys, smtpHosts)
    /\ ex = IdleExtract(PayloadEmpty)

\* The same with the e-mail transports left unconfigured
InitCfg(apiKeys, agentIds, tokenUrls, geminiKeys) ==
    InitState(apiKeys, agentIds, tokenUrls, geminiKeys, {""}, {""})

Init ==
    InitState({"", "xi-key"}, {"", "agent"}, {"", "override"}, {"", "g-key"},
              {"", "sg-key"}, {"", "smtp-host"})

\* ?name= values of the requests: omitted, empty, blank, and two spellings of
\* one participant
RawNames == {None, Some(<<>>), Some(<<" ">>), Some(<<"a">>), Some(<<" ", "a", " ">>)}

\* A failing upstream response and the two token-bearing ones

\* The fetcher in full: one worker, every upstream behaviour, no clock.
InitFetch == InitCfg({"", "xi-key"}, {"", "agent"}, {"", "override"}, {""})

NextFetch ==
    \/ \E rawName \in {Some(<<"a">>)} : TokenBegin("w1", rawName)
    \/ \E o \in FetchOutcomes : TokenAttempt("w1", o)
    \/ TokenStamp("w1")
    \/ TokenStore("w1")
    \/ TokenReturn("w1")

SpecFetch == InitFetch /\ [][NextFetch]_vars

\* The token service: concurrent workers, the cache and the clock.
InitToken == InitCfg({"", "xi-key"}, {"", "agent"}, {""}, {""})

NextToken ==
    \/ \E w \in Workers, rawName \in {None, Some(<<"a">>)} : TokenBegin(w, rawName)
    \/ \E w \in Workers, o \in CacheOutcomes : TokenAttempt(w, o)
    \/ \E w \in Workers : TokenStamp(w)
    \/ \E w \in Workers : TokenStore(w)
    \/ \E w \in Workers : TokenReturn(w)
    \/ Tick(ClockValues)

SpecToken == InitToken /\ [][NextToken]_vars

\* The names of the requests: every spelling, two workers, a failing or
\* answering upstream, and the clock.
NextNames ==
    \/ \E w \in Workers, rawName \in RawNames : TokenBegin(w, rawName)
    \/ \E w \in Workers, o \in NameOutcomes : TokenAttempt(w, o)
    \/ \E w \in Workers : TokenStamp(w)
    \/ \E w \in Workers : TokenStore(w)
    \/ \E w \in Workers : TokenReturn(w)
    \/ Tick({0, 55})

SpecNames == InitCfg({"xi-key"}, {"agent"}, {""}, {""}) /\ [][NextNames]_vars

\* Form fields of the intake requests
RawEmails == {None, Some(<<" ">>), Some(<<"e">>), Some(<<" ", "f">>)}
\* A transcript of n characters
Chars(n) == [i \in 1..n |-> IF i % 2 = 1 THEN "a" ELSE "b"]

\* Omitted, blank, short, exactly the maximum (and longer than the fallback
\* excerpt), and one character more than the maximum once stripped
RawTranscripts ==
    {None, Some(<<" ">>), Some(<<"a", "b">>), Some(Chars(MAX_TRANSCRIPT_CHARS)),
     Some(<<" ">> \o Chars(MAX_TRANSCRIPT_CHARS + 1))}
SessionIds == {"1a2b3c4d", "9f8e7d6c"}
Protos == {None, Some("https")}

\* Variant: the upper end is one second too far
DelayChoicesWide == RandInt(10, 31)

\* delay_seconds = random.randint(10, 30)
DelayChoices == RandInt(10, 30)

\* The shortest delay of the range
DelaySamples == {d \in DelayChoices : \A e \in DelayChoices : d <= e}

InitIntake == InitCfg({""}, {""}, {""}, {"", "g-key"})

\* Intakes one after the other, with every kind of input and of summarizer
\* and file-system behaviour.
NextUpload ==
    \/ \E e \in RawEmails, t \in RawTranscripts, ok \in BOOLEAN :
          UploadBegin("w1", e, t, "1a2b3c4d", ok)
    \/ \E g \in GeminiOutcomes, d \in DelaySamples : UploadSummarize("w1", g, d, None)
    \/ UploadReturn("w1")
    \/ Tick({0, 1})

SpecUpload == InitIntake /\ [][NextUpload]_vars

\* Concurrent intakes: two workers, session ids that may coincide.
NextIntake ==
    \/ \E w \in Workers, e \in {Some(<<"e">>), Some(<<" ", "f">>)},
          sid \in SessionIds, ok \in BOOLEAN :
          UploadBegin(w, e, Some(<<"a", "b">>), sid, ok)
    \/ \E w \in Workers, g \in {GeminiError, GeminiText("summary")} :
          UploadSummarize(w, g, 10, None)
    \/ \E w \in Workers : UploadReturn(w)
    \/ Tick({0, 1})

SpecIntake == InitIntake /\ [][NextIntake]_vars

\* Intakes with every delay the draw can produce, behind a proxy or not.
NextDelay ==
    \/ UploadBegin("w1", Some(<<"e">>), Some(<<"a", "b">>), "1a2b3c4d", TRUE)
    \/ \E d \in DelayChoices, p \in Protos : UploadSummarize("w1", GeminiError, d, p)
    \/ UploadReturn("w1")
    \/ Tick({0, 1})

SpecDelay == InitCfg({""}, {""}, {""}, {""}) /\ [][NextDelay]_vars

\* Summaries under every behaviour of the provider, two workers.
NextSummary ==
    \/ \E w \in Workers, t \in {Some(<<"a", "b">>), Some(Chars(MAX_TRANSCRIPT_CHARS))} :
          UploadBegin(w, Some(<<"e">>), t, "1a2b3c4d", TRUE)
    \/ \E w \in Workers, g \in GeminiFailures \cup {GeminiText("summary")} :
          UploadSummarize(w, g, 10, None)
    \/ \E w \in Workers : UploadReturn(w)
    \/ Tick({0, 1})

SpecSummary == InitIntake /\ [][NextSummary]_vars

\* Ids a browser asks for: the ones the intakes of SpecView can produce and
\* one that no intake produces
ViewIds ==
    {BlueprintId(0, "1a2b3c4d"), BlueprintId(1, "1a2b3c4d"), BlueprintId(0, "9f8e7d6c")}

\* Intakes of two workers and a browser that views blueprints.
NextView ==
    \/ \E w \in Workers : UploadBegin(w, Some(<<"e">>), Some(<<"a", "b">>), "1a2b3c4d", TRUE)
    \/ \E w \in Workers, g \in {GeminiError, GeminiText("summary")} :
          UploadSummarize(w, g, 10, None)
    \/ \E w \in Workers : UploadReturn(w)
    \/ \E id \in ViewIds : ViewBlueprint(id)
    \/ ViewReturn
    \/ Tick({0, 1})

SpecView == InitCfg({""}, {""}, {""}, {"g-key"}) /\ [][NextView]_vars

\* Instants of the e-mail runs: threads start at 0 or 1 and their shortest
\* sleep ends at 10 or 11
JobClock == {0, 1, 10, 11}

\* Intakes and their e-mail threads, under every configuration of the two
\* transports and every behaviour of each.
NextJobs ==
    \/ UploadBegin("w1", Some(<<"e">>), Some(<<"a", "b">>), "1a2b3c4d", TRUE)
    \/ \E d \in DelaySamples : UploadSummarize("w1", GeminiError, d, None)
    \/ UploadReturn("w1")
    \/ \E i \in 1..Len(jobs) : JobWake(i)
    \/ \E i \in 1..Len(jobs), o \in SendGridOutcomes : JobSendGrid(i, o)
    \/ \E i \in 1..Len(jobs), ok \in BOOLEAN : JobSmtp(i, ok)
    \/ Tick(JobClock)

SpecJobs ==
    InitState({""}, {""}, {""}, {""}, {"", "sg-key"}, {"", "smtp-host"})
        /\ [][NextJobs]_vars

\* The sampled clock still reaches the end of a sleep that starts now
ClockCovers == \E t \in JobClock : \A d \in DelaySamples : t >= now + d

\* Intakes, valid or not, that arrive while the sampled clock covers their
\* sleep and are answered within the instant, and their e-mail threads with
\* both transports configured.
NextJobsLive ==
    \/ \E e \in {None, Some(<<"e">>)} :
          ClockCovers /\ UploadBegin("w1", e, Some(<<"a", "b">>), "1a2b3c4d", TRUE)
    \/ \E d \in DelaySamples : UploadSummarize("w1", GeminiError, d, None)
    \/ UploadReturn("w1")
    \/ \E i \in 1..Len(jobs) : JobWake(i)
    \/ \E i \in 1..Len(jobs), o \in {MailResp(202), MailResp(400)} :
          JobSendGrid(i, o)
    \/ \E i \in 1..Len(jobs), ok \in BOOLEAN : JobSmtp(i, ok)
    \/ InProgress = {} /\ Tick(JobClock)

\* The process keeps running: time passes, the request handler runs to its
\* response, and every started thread is scheduled (threads are started
\* with Thread.start() and never joined or cancelled; session.post has a
\* timeout and the SMTP calls return or raise).
FairJobs ==
    /\ WF_vars(InProgress = {} /\ Tick(JobClock))
    /\ WF_vars(\E d \in DelaySamples : UploadSummarize("w1", GeminiError, d, None))
    /\ WF_vars(UploadReturn("w1"))
    /\ \A i \in 1..MaxIntakes :
          /\ WF_vars(JobWake(i))
          /\ WF_vars(\E o \in {MailResp(202), MailResp(400)} : JobSendGrid(i, o))
          /\ WF_vars(\E ok \in BOOLEAN : JobSmtp(i, ok))

SpecJobsLive ==
    InitState({""}, {""}, {""}, {""}, {"sg-key"}, {"smtp-host"})
        /\ [][NextJobsLive]_vars /\ FairJobs

\* Concurrent intakes of two recipients, session ids that may coincide, and
\* their e-mail threads over SendGrid alone.
NextNotify ==
    \/ \E w \in Workers, e \in {Some(<<"e">>), Some(<<" ", "f">>)}, sid \in SessionIds :
          UploadBegin(w, e, Some(<<"a", "b">>), sid, TRUE)
    \/ \E w \in Workers, d \in DelaySamples : UploadSummarize(w, GeminiError, d, None)
    \/ \E w \in Workers : UploadReturn(w)
    \/ \E i \in 1..Len(jobs) : JobWake(i)
    \/ \E i \in 1..Len(jobs) : JobSendGrid(i, MailResp(202))
    \/ Tick({0, 10})

SpecNotify ==
    InitState({""}, {""}, {""}, {""}, {"sg-key"}, {""}) /\ [][NextNotify]_vars

\* The twelve places a token can be at, each with a token of its own
Places == {"direct"} \cup ContainerSet
TokenAt ==
    [l \in Places |-> [k \in KeySet |->
        IF l = "direct"
          THEN (IF k = "token" THEN "direct.token"
                ELSE IF k = "access_token" THEN "direct.access_token"
                ELSE "direct.conversation_token")
        ELSE IF l = "conversation"
          THEN (IF k = "token" THEN "conversation.token"
                ELSE IF k = "access_token" THEN "conversation.access_token"
                ELSE "conversation.conversation_token")
        ELSE IF l = "data"
          THEN (IF k = "token" THEN "data.token"
                ELSE IF k = "access_token" THEN "data.access_token"
                ELSE "data.conversation_token")
        ELSE (IF k = "token" THEN "result.token"
              ELSE IF k = "access_token" THEN "result.access_token"
              ELSE "result.conversation_token")]]

\* The object at place l of a payload that holds tokens at the places of
\* `at` and the value `other` (absent, empty or not a string) elsewhere
ObjAt(at, l, other) == [k \in KeySet |-> IF <<l, k>> \in at THEN TokenAt[l][k] ELSE other]

\* Parsed response bodies: tokens at any set of places, the other values all
\* absent, all empty or all non-strings, and at most one container that is
\* not a dict
ExtractPayloads ==
    { MkPayload(ObjAt(at, "direct", other),
                [c \in ContainerSet |->
                    IF c = nd THEN NotDict
                    ELSE [isdict |-> TRUE, obj |-> ObjAt(at, c, other)]]) :
        at \in SUBSET (Places \X KeySet),
        other \in {"absent", "", "nonstr"},
        nd \in ContainerSet \cup {"none"} }

\* _extract_token on its own, over the parsed bodies.
InitExtract ==
    /\ InitRest({""}, {""}, {""}, {""}, {""}, {""})
    /\ ex \in {IdleExtract(p) : p \in ExtractPayloads}

NextExtract == ExtractCall

SpecExtract == InitExtract /\ [][NextExtract]_vars

\* The fetcher transmission by transmission: one worker, the adapter's
\* retransmissions.
NextRetry ==
    \/ TokenBegin("w1", Some(<<"a">>))
    \/ \E x \in TxOutcomes : TokenTransmit("w1", x)
    \/ TokenStamp("w1")
    \/ TokenStore("w1")
    \/ TokenReturn("w1")

SpecRetry == InitCfg({"xi-key"}, {"agent"}, {"", "override"}, {""}) /\ [][NextRetry]_vars

Next ==
    \/ NextExtract
    \/ NextRetry
    \/ NextFetch \/ NextToken \/ NextNames \/ NextUpload \/ NextIntake \/ NextDelay
    \/ NextSummary \/ NextView \/ NextJobs

Spec == Init /\ [][Next]_vars


(***************************************************************************)
(* Properties                                                              *)
(***************************************************************************)
\* Number of non-empty candidate endpoints of the running configuration
NonEmptyEndpoints == 3 + (IF ELEVEN_TOKEN_URL # "" THEN 1 ELSE 0)

\* C1: a request for key k that starts while the entry of k is younger than
\* 55 seconds is answered with the cached token, without calling the fetcher
\* and without any upstream call; a request that starts when k has no entry
\* or an entry of age >= 55 seconds calls the fetcher.
C1_CacheTtl ==
    [][\A w \in Workers :
        (ct[w].pc = "idle" /\ ct'[w].pc # "idle") =>
            LET k == ct'[w].cache_key IN
            IF k \in DOMAIN TOKEN_CACHE /\ now - TOKEN_CACHE[k].ts < TTL
              THEN /\ ct'[w].pc = "done"
                   /\ ct'[w].resp.status = 200
                   /\ ct'[w].resp.token = TOKEN_CACHE[k].token
                   /\ ~ct'[w].fetched
                   /\ ct'[w].contacted = <<>>
              ELSE /\ ct'[w].fetched
                   /\ ct'[w].pc \in {"fetch", "done"}
                   /\ ct'[w].pc = "done" => ct'[w].resp.status = 502]_vars

\* One worker was served from an entry aged 54 seconds while the other, on a
\* key whose entry is aged exactly 55 seconds, is fetching again.
C1_Witness ==
    \E w1, w2 \in Workers :
        /\ ct[w1].pc = "done" /\ ~ct[w1].fetched
        /\ ct[w1].cache_key \in DOMAIN TOKEN_CACHE
        /\ now - TOKEN_CACHE[ct[w1].cache_key].ts = TTL - 1
        /\ ct[w1].resp.token = TOKEN_CACHE[ct[w1].cache_key].token
        /\ ct[w2].pc = "fetch"
        /\ ct[w2].cache_key \in DOMAIN TOKEN_CACHE
        /\ now - TOKEN_CACHE[ct[w2].cache_key].ts = TTL

\* A failed attempt as the fetcher sees it
FailedAttempt(o) ==
    \/ o.kind = "exception"
    \/ o.status >= 400
    \/ ~o.json
    \/ ExtractToken(o.payload) = NoToken

C4_Original ==
    \A w \in Workers :
        (/\ ct[w].pc = "done"
         /\ ct[w].resp.status = 502
         /\ ct[w].resp.message.text = "All token endpoints failed") =>
            /\ ~ct[w].resp.details.empty
            /\ ct[w].resp.details.attempts = ct[w].resp.message.attempts
            /\ Len(ct[w].resp.details.attempts) = 2 * NonEmptyEndpoints

\* C5: a request without name and a request with an empty name both use the
\* cache key "" and forward no participant name; either is served the entry
\* of key "" while it is fresh, whichever request stored it.
C5_AnonymousKey ==
    [][\A w \in Workers :
        (ct'[w].pc # "idle" /\ ct'[w].raw \in {None, Some(<<>>)}) =>
            /\ ct'[w].cache_key = <<>>
            /\ ct'[w].participant = None
            /\ \A i \in 1..Len(ct'[w].contacted) :
                  ct'[w].contacted[i].participant = None
            /\ (/\ ct[w].pc = "idle"
                /\ <<>> \in DOMAIN TOKEN_CACHE
                /\ now - TOKEN_CACHE[<<>>].ts < TTL) =>
                  /\ ct'[w].pc = "done"
                  /\ ~ct'[w].fetched
                  /\ ct'[w].resp.token = TOKEN_CACHE[<<>>].token]_vars

\* A request without name fetched and stored a token; a request with an empty
\* name got that token from the cache.
C5_Witness ==
    \E w1, w2 \in Workers :
        /\ ct[w1].pc = "done" /\ ct[w1].raw = None /\ ct[w1].fetched
        /\ ct[w1].resp.status = 200
        /\ Len(ct[w1].contacted) > 0
        /\ ct[w2].pc = "done" /\ ct[w2].raw = Some(<<>>) /\ ~ct[w2].fetched
        /\ ct[w2].resp.token = ct[w1].resp.token
        /\ <<>> \in DOMAIN TOKEN_CACHE
        /\ TOKEN_CACHE[<<>>].token = ct[w1].resp.token

\* C6: with the API key or the agent id unset, a request that finds no fresh
\* entry ends at once with a 5xx response carrying the configuration
\* message, contacts no candidate and leaves the cache as it was.
C6_ConfigError ==
    [][\A w \in Workers :
        (/\ ct[w].pc = "idle" /\ ct'[w].pc # "idle"
         /\ ELEVEN_API_KEY = "" \/ AGENT_ID = ""
         /\ ~(/\ ct'[w].cache_key \in DOMAIN TOKEN_CACHE
              /\ now - TOKEN_CACHE[ct'[w].cache_key].ts < TTL)) =>
            /\ ct'[w].pc = "done"
            /\ ct'[w].resp.status \in 500..599
            /\ ct'[w].resp.message.text \in
                  {"Missing ELEVEN_API_KEY", "Missing AGENT_ID or ELEVEN_AGENT_ID"}
            /\ ct'[w].contacted = <<>>
            /\ TOKEN_CACHE' = TOKEN_CACHE]_vars

\* With the key set and the agent id unset a request ended with the
\* configuration error.
C6_Witness ==
    \E w \in Workers :
        /\ ELEVEN_API_KEY # "" /\ AGENT_ID = ""
        /\ ct[w].pc = "done"
        /\ ct[w].resp.status = 502
        /\ ct[w].resp.message.text = "Missing AGENT_ID or ELEVEN_AGENT_ID"
        /\ ct[w].contacted = <<>>

\* A form field that is missing or holds only blanks
IsBlank(x) == ~x.present \/ \A i \in 1..Len(x.value) : x.value[i] = " "

\* C7: an intake whose email or transcript is missing or blank is answered
\* 400 at once: no file is written, the summarizer is not called, no record
\* is inserted and no e-mail thread is started.
C7_Validation ==
    [][\A w \in Workers :
        (/\ up[w].pc = "idle" /\ up'[w].pc # "idle"
         /\ IsBlank(up'[w].form.email) \/ IsBlank(up'[w].form.transcript)) =>
            /\ up'[w].pc = "done"
            /\ up'[w].resp.status = 400
            /\ up'[w].resp.error =
                  IF IsBlank(up'[w].form.email) THEN "Missing email"
                                                ELSE "Missing transcript"
            /\ ~up'[w].summarized
            /\ files' = files
            /\ blueprint_storage' = blueprint_storage
            /\ jobs' = jobs]_vars

\* A blank transcript with a valid email was refused.
C7_Witness ==
    \E w \in Workers :
        /\ up[w].pc = "done"
        /\ up[w].resp.status = 400
        /\ up[w].resp.error = "Missing transcript"
        /\ up[w].form.email = Some(<<"e">>)
        /\ up[w].form.transcript = Some(<<" ">>)

\* The text an intake works on: the stripped transcript, cut to the maximum
ExpectedText(raw) ==
    LET t == Strip(OrEmpty(raw)) IN
    IF Len(t) > MAX_TRANSCRIPT_CHARS THEN SubSeq(t, 1, MAX_TRANSCRIPT_CHARS) ELSE t

\* C8: the text written to the session file and the text handed to the
\* summarizer are the stripped transcript cut to its first
\* MAX_TRANSCRIPT_CHARS characters: of that exact length when the transcript
\* is longer, unchanged otherwise.
C8_Truncation ==
    [][\A w \in Workers :
        /\ (up[w].pc = "idle" /\ up'[w].pc = "summarize") =>
            LET e == ExpectedText(up'[w].form.transcript)
                id == BlueprintId(up'[w].stamp, up'[w].session_id) IN
            /\ up'[w].transcript = e
            /\ Len(Strip(OrEmpty(up'[w].form.transcript))) > MAX_TRANSCRIPT_CHARS
                  => Len(up'[w].transcript) = MAX_TRANSCRIPT_CHARS
            /\ files' # files => (id \in DOMAIN files' /\ files'[id] = e)
        /\ (up[w].pc = "summarize" /\ up'[w].pc = "done") =>
            LET id == up'[w].resp.blueprint_id
                c == blueprint_storage'[id].content IN
            /\ up'[w].transcript = ExpectedText(up[w].form.transcript)
            /\ c.label # "" =>
                  c.excerpt = Prefix(ExpectedText(up[w].form.transcript), EXCERPT_CHARS)]_vars

\* A transcript one character longer than the maximum was written and
\* summarized cut to the maximum.
C8_Witness ==
    \E w \in Workers :
        LET id == up[w].resp.blueprint_id IN
        /\ up[w].pc = "done" /\ up[w].resp.status = 200
        /\ Len(Strip(OrEmpty(up[w].form.transcript))) = MAX_TRANSCRIPT_CHARS + 1
        /\ id \in DOMAIN files /\ Len(files[id]) = MAX_TRANSCRIPT_CHARS
        /\ id \in DOMAIN blueprint_storage
        /\ up[w].summarized /\ Len(up[w].transcript) = MAX_TRANSCRIPT_CHARS

\* C9: a successful intake answers with scheduled_in_seconds in 10..30, and
\* the e-mail thread it starts is given that same delay.
C9_Delay ==
    [][\A w \in Workers :
        (up[w].pc = "summarize" /\ up'[w].pc = "done") =>
            /\ up'[w].resp.status = 200
            /\ up'[w].resp.scheduled_in_seconds \in 10..30
            /\ Len(jobs') = Len(jobs) + 1
            /\ jobs'[Len(jobs')].delay_seconds = up'[w].resp.scheduled_in_seconds]_vars

\* Two intakes were scheduled with the two ends of the range.
C9_Witness ==
    /\ Len(jobs) = 2
    /\ jobs[1].delay_seconds = 10
    /\ jobs[2].delay_seconds = 30
    /\ \E w \in Workers : up[w].pc = "done" /\ up[w].resp.scheduled_in_seconds = 30

\* C10: every successful intake gets an id no earlier intake got, so the
\* store holds as many records as there were successful intakes.
C10_Original == Cardinality(DOMAIN blueprint_storage) = Len(jobs)

\* C11: view_blueprint on an id under which no record was stored answers 404
\* and changes no state; on the id that a completed intake answered with, it
\* returns the record whose content is the string the summarizer returned
\* for that intake.
C11_Original ==
    [][(vw.pc = "idle" /\ vw'.pc = "done") =>
        /\ UNCHANGED <<blueprint_storage, files, jobs, up, TOKEN_CACHE>>
        /\ vw'.blueprint_id \notin DOMAIN blueprint_storage => vw'.status = 404
        /\ \A w \in Workers :
              (/\ up[w].pc = "done" /\ up[w].resp.status = 200
               /\ up[w].resp.blueprint_id = vw'.blueprint_id)
                  => (vw'.status = 200 /\ vw'.page.content = up[w].blueprint)]_vars

\* A summary that is a fallback text
IsFallback(content) == content.label # ""

\* C12 as stated: when the provider call fails, the stored content is one
\* fallback that depends on the transcript only: two intakes of the same
\* transcript whose summaries failed, for whatever cause, hold the same
\* content.
C12_Original ==
    \A w1, w2 \in Workers :
        (/\ up[w1].pc = "done" /\ up[w1].summarized
         /\ up[w2].pc = "done" /\ up[w2].summarized
         /\ IsFallback(up[w1].blueprint) /\ IsFallback(up[w2].blueprint)
         /\ up[w1].transcript = up[w2].transcript)
            => up[w1].blueprint = up[w2].blueprint

\* The heading of the fallback text of each failure cause
CauseLabel(g) ==
    IF g.kind = "not_called" THEN "API Key Missing"
    ELSE IF g.kind = "no_candidates" THEN "Gemini Empty Response"
    ELSE IF g.kind = "text" THEN "empty"
    ELSE "Gemini API Error"

\* The provider call of a summary did not yield a text
SummaryFailed(g) == g.kind # "text" \/ g.text = ""

\* C12: when the provider call fails (no credential, transport error, error
\* status, body that is not JSON or is malformed, no candidates, empty text)
\* the intake still answers 200 and the stored content is the fallback of
\* that cause: the heading naming the cause and the first 200 characters of
\* the transcript.
C12_Fallback ==
    [][\A w \in Workers :
        (up[w].pc = "summarize" /\ up'[w].pc = "done" /\ SummaryFailed(up'[w].gemini)) =>
            LET id == up'[w].resp.blueprint_id
                t == up[w].transcript IN
            /\ up'[w].resp.status = 200
            /\ id \in DOMAIN blueprint_storage'
            /\ blueprint_storage'[id].content =
                  [label |-> CauseLabel(up'[w].gemini),
                   excerpt |-> SubSeq(t, 1, IF Len(t) < 200 THEN Len(t) ELSE 200),
                   text |-> ""]]_vars

\* Two intakes of one transcript of 201 characters failed for different
\* causes: the same 200 characters under two headings.
C12_Witness ==
    \E w1, w2 \in Workers :
        /\ up[w1].pc = "done" /\ up[w1].summarized /\ up[w1].gemini = GeminiStatus
        /\ up[w2].pc = "done" /\ up[w2].summarized /\ up[w2].gemini = GeminiText("")
        /\ up[w1].transcript = up[w2].transcript /\ Len(up[w1].transcript) = 201
        /\ up[w1].blueprint.excerpt = up[w2].blueprint.excerpt
        /\ Len(up[w1].blueprint.excerpt) = 200
        /\ up[w1].blueprint.label # up[w2].blueprint.label

\* C13: the summarizer never fails outward: whatever the transcript and
\* whatever the provider call does, the summarizing step of a valid intake
\* ends with a non-empty summary stored and the answer 200.
C13_NeverFails ==
    [][\A w \in Workers :
        (up[w].pc = "summarize" /\ up'[w] # up[w]) =>
            LET id == up'[w].resp.blueprint_id IN
            /\ up'[w].pc = "done" /\ up'[w].resp.status = 200
            /\ up'[w].blueprint.label # "" \/ up'[w].blueprint.text # ""
            /\ id \in DOMAIN blueprint_storage'
            /\ blueprint_storage'[id].content = up'[w].blueprint]_vars

\* Intakes were answered 200 after a body that lacked the expected structure
\* and after an empty text.
C13_Witness ==
    \E w1, w2 \in Workers :
        /\ up[w1].pc = "done" /\ up[w1].resp.status = 200
        /\ up[w1].gemini = GeminiMalformed /\ up[w1].blueprint.label = "Gemini API Error"
        /\ up[w2].pc = "done" /\ up[w2].resp.status = 200
        /\ up[w2].gemini = GeminiText("") /\ up[w2].blueprint.label = "empty"

\* C14: a record that was inserted stays under its id with the same content,
\* email and session id: no step updates or deletes it.
C14_Original ==
    [][\A id \in DOMAIN blueprint_storage :
        /\ id \in DOMAIN blueprint_storage'
        /\ blueprint_storage'[id].content = blueprint_storage[id].content
        /\ blueprint_storage'[id].email = blueprint_storage[id].email
        /\ blueprint_storage'[id].session_id = blueprint_storage[id].session_id]_vars

\* C15: an intake does not wait for its notification: the step that answers
\* starts the e-mail thread and leaves it asleep with nothing sent, whatever
\* the state of the threads started earlier, which it does not touch; the
\* summarizing step and the return of a handler are never blocked.
C15_NoWait ==
    /\ [][\A w \in Workers :
            (up[w].pc = "summarize" /\ up'[w].pc = "done") =>
                /\ Len(jobs') = Len(jobs) + 1
                /\ SubSeq(jobs', 1, Len(jobs)) = jobs
                /\ jobs'[Len(jobs')].pc = "sleeping"
                /\ jobs'[Len(jobs')].sends = <<>>
                /\ up'[w].resp.status = 200]_vars
    /\ [](\A w \in Workers :
            /\ up[w].pc = "summarize" => ENABLED UploadSummarize(w, GeminiError, 10, None)
            /\ up[w].pc = "done" => ENABLED UploadReturn(w))

\* An intake has answered while its own thread and an earlier one are both
\* still asleep.
C15_Witness ==
    /\ Len(jobs) = 2
    /\ jobs[1].pc = "sleeping" /\ jobs[2].pc = "sleeping"
    /\ up["w1"].pc = "done" /\ up["w1"].resp.status = 200
    /\ jobs[2].link = up["w1"].resp.blueprint_url

\* C16: an e-mail thread attempts no send, on either transport, before
\* delay_seconds have passed since it started: while it sleeps nothing has
\* been sent, and it leaves its sleep only then.
C16_SleepFirst ==
    /\ [](\A i \in 1..Len(jobs) :
            /\ jobs[i].pc = "sleeping" => (jobs[i].sends = <<>> /\ jobs[i].tx = 0)
            /\ jobs[i].pc # "sleeping" => now - jobs[i].started >= jobs[i].delay_seconds)
    /\ [][\A i \in 1..Len(jobs) :
            jobs'[i].sends # jobs[i].sends =>
                (jobs[i].pc # "sleeping" /\ now >= jobs[i].started + jobs[i].delay_seconds)]_vars

\* A thread started at second 1 with a delay of 10 is still asleep at second
\* 10, while the thread started at second 0 has sent.
C16_Witness ==
    /\ Len(jobs) = 2 /\ now = 10
    /\ jobs[1].started = 0 /\ jobs[1].delay_seconds = 10 /\ jobs[1].sends # <<>>
    /\ jobs[2].started = 1 /\ jobs[2].delay_seconds = 10 /\ jobs[2].pc = "sleeping"

\* Number of attempts of a transport in a log of send attempts
Count(sends, transport) == Cardinality({k \in 1..Len(sends) : sends[k] = transport})

\* C17 as stated: each e-mail thread makes at most one send attempt.
C17_Original == \A i \in 1..Len(jobs) : Len(jobs[i].sends) <= 1

\* C17: each e-mail thread calls the sender once.  Within that call the
\* SendGrid request is transmitted at most four times, one SMTP attempt may
\* follow as the last attempt, and a thread that has ended does nothing
\* more; the steps of a thread change neither the blueprint store, nor the
\* token cache, nor any response.
C17_OneCall ==
    /\ [](\A i \in 1..Len(jobs) :
            LET s == jobs[i].sends IN
            /\ Count(s, "sendgrid") <= 4
            /\ Count(s, "smtp") <= 1
            /\ \A k \in 1..Len(s) : s[k] = "smtp" => k = Len(s)
            /\ SENDGRID_API_KEY = "" => Count(s, "sendgrid") = 0
            /\ SMTP_HOST = "" => Count(s, "smtp") = 0)
    /\ [][\A i \in 1..Len(jobs) :
            /\ jobs[i].pc = "done" => jobs'[i] = jobs[i]
            /\ jobs'[i] # jobs[i] =>
                  UNCHANGED <<blueprint_storage, TOKEN_CACHE, files, up, ct, vw>>]_vars

\* A thread has ended in failure after four SendGrid transmissions and one
\* SMTP attempt; the record of its intake is still stored.
C17_Witness ==
    \E i \in 1..Len(jobs) :
        /\ jobs[i].pc = "done" /\ ~jobs[i].ok
        /\ jobs[i].sends = <<"sendgrid", "sendgrid", "sendgrid", "sendgrid", "smtp">>
        /\ jobs[i].link.path \in DOMAIN blueprint_storage

\* C18: a failure to write the transcript file is swallowed: the intake
\* goes on to the summarizer, inserts its record, starts exactly one e-mail
\* thread and answers 200, as when the write succeeds.
C18_WriteSwallowed ==
    [][\A w \in Workers :
        /\ (/\ up[w].pc = "idle" /\ up'[w].pc # "idle"
            /\ ~IsBlank(up'[w].form.email) /\ ~IsBlank(up'[w].form.transcript))
               => up'[w].pc = "summarize"
        /\ (up[w].pc = "summarize" /\ up'[w] # up[w]) =>
               LET id == up'[w].resp.blueprint_id IN
               /\ up'[w].pc = "done" /\ up'[w].summarized
               /\ up'[w].resp.status = 200
               /\ id = BlueprintId(up[w].stamp, up[w].session_id)
               /\ id \in DOMAIN blueprint_storage'
               /\ blueprint_storage'[id].email = up[w].email
               /\ Len(jobs') = Len(jobs) + 1
               /\ SubSeq(jobs', 1, Len(jobs)) = jobs]_vars

\* An intake whose file could not be written has answered 200: no file, one
\* record, one thread.
C18_Witness ==
    \E w \in Workers :
        LET id == up[w].resp.blueprint_id IN
        /\ up[w].pc = "done" /\ up[w].resp.status = 200 /\ ~up[w].saved
        /\ files = EmptyMap
        /\ DOMAIN blueprint_storage = {id}
        /\ Len(jobs) = 1

\* The order of the candidate (endpoint, method) pairs as C19 states it
ClaimedOrder ==
    LET urls == (IF ELEVEN_TOKEN_URL # "" THEN <<ELEVEN_TOKEN_URL>> ELSE <<>>)
                  \o <<"convai/conversations", "convai/conversation/token",
                        "convai/conversation">>
    IN  [k \in 1..(2 * Len(urls)) |->
            [url |-> urls[(k + 1) \div 2],
             method |-> IF k % 2 = 1 THEN "POST" ELSE "GET"]]

\* C19: the fetcher contacts the candidates in a fixed order: the override
\* first when it is set, then the three fixed endpoints in their order, POST
\* before GET on each; it goes on only after a failed attempt and contacts
\* nothing more once an attempt has yielded a token.
C19_Order ==
    /\ [](\A w \in Workers :
            /\ Len(ct[w].contacted) <= Len(ClaimedOrder)
            /\ \A k \in 1..Len(ct[w].contacted) :
                  /\ ct[w].contacted[k].url = ClaimedOrder[k].url
                  /\ ct[w].contacted[k].method = ClaimedOrder[k].method)
    /\ [][\A w \in Workers :
            /\ (ct[w].pc = "fetch" /\ ct'[w].pc = "fetch" /\ ct'[w] # ct[w])
                  => FailedAttempt(ct'[w].last)
            /\ (ct[w].pc = "fetch" /\ ct'[w].pc = "stamp")
                  => ~FailedAttempt(ct'[w].last)
            /\ (ct[w].pc \in {"stamp", "store"})
                  => ct'[w].contacted = ct[w].contacted]_vars

\* With the override set, a token came from the third pair: the override by
\* POST and by GET, then the first fixed endpoint by POST, and nothing after.
C19_Witness ==
    /\ ELEVEN_TOKEN_URL = "override"
    /\ ct["w1"].pc = "done" /\ ct["w1"].resp.status = 200
    /\ Len(ct["w1"].contacted) = 3
    /\ ct["w1"].contacted[1].url = "override" /\ ct["w1"].contacted[1].method = "POST"
    /\ ct["w1"].contacted[2].url = "override" /\ ct["w1"].contacted[2].method = "GET"
    /\ ct["w1"].contacted[3].url = "convai/conversations"
    /\ ct["w1"].contacted[3].method = "POST"

\* C20: requests for one key are not coalesced: a request that finds no
\* fresh entry goes to the upstream even while another request for the same
\* key is fetching; each store writes the whole entry of its key (its own
\* token with its own timestamp) and leaves the other keys alone, so the
\* key holds the one entry of the request that stored last.
C20_NoSingleFlight ==
    [][\A w \in Workers :
        /\ (/\ ct[w].pc = "idle" /\ ct'[w].pc # "idle"
            /\ ELEVEN_API_KEY # "" /\ AGENT_ID # ""
            /\ ct'[w].cache_key \notin DOMAIN TOKEN_CACHE
            /\ \E v \in Workers \ {w} :
                  ct[v].pc = "fetch" /\ ct[v].cache_key = ct'[w].cache_key)
               => ct'[w].pc = "fetch"
        /\ (ct[w].pc = "store" /\ ct'[w].pc = "done") =>
               /\ DOMAIN TOKEN_CACHE' = DOMAIN TOKEN_CACHE \cup {ct[w].cache_key}
               /\ TOKEN_CACHE'[ct[w].cache_key] = [token |-> ct[w].token, ts |-> ct[w].ts]
               /\ \A k \in DOMAIN TOKEN_CACHE \ {ct[w].cache_key} :
                     TOKEN_CACHE'[k] = TOKEN_CACHE[k]]_vars

\* Two requests for one key are both in the middle of their upstream calls.
C20_Witness ==
    /\ ct["w1"].pc = "fetch" /\ ct["w2"].pc = "fetch"
    /\ ct["w1"].cache_key = ct["w2"].cache_key
    /\ ct["w1"].contacted # <<>> /\ ct["w2"].contacted # <<>>
    /\ ct["w1"].cache_key \notin DOMAIN TOKEN_CACHE

\* A step in which the adapter transmits the request in progress again
Retransmits(w) ==
    ct[w].pc = "fetch" /\ ct'[w].pc = "fetch" /\ ct'[w].tx = ct[w].tx + 1

\* C21 as stated: each (endpoint, method) attempt makes at most 3
\* transmissions, the first included, and transmits again only after a
\* transport failure or a status in {429, 500, 502, 503, 504}.
C21_Original ==
    /\ [](\A w \in Workers : ct[w].ltx <= 3 /\ ct[w].tx < 3)
    /\ [][\A w \in Workers :
            Retransmits(w) =>
                \/ ct'[w].last.kind = "exception"
                \/ (/\ ct'[w].last.kind = "response"
                    /\ ct'[w].last.status \in {429, 500, 502, 503, 504})]_vars

\* C21: each (endpoint, method) attempt makes at most 4 transmissions, the
\* first included; it transmits again only after a transport failure, a
\* status in {429, 500, 502, 503, 504}, or a 413/429/503 that carries a
\* Retry-After header; a response that reaches the fetcher never has a
\* force-list status, and the request ends with the transmission that
\* brought it.
C21_Retry ==
    /\ [](\A w \in Workers : ct[w].ltx <= 4 /\ ct[w].tx < 4)
    /\ [][\A w \in Workers :
            /\ Retransmits(w) =>
                  \/ ct'[w].last.kind = "exception"
                  \/ ct'[w].last.status \in {429, 500, 502, 503, 504}
                  \/ (/\ ct'[w].last.kind = "retry_after"
                      /\ ct'[w].last.status \in {413, 429, 503})
            /\ (ct[w].pc = "fetch" /\ Len(ct'[w].contacted) = Len(ct[w].contacted) + 1) =>
                  /\ ct'[w].ltx = ct[w].tx + 1
                  /\ ct'[w].tx = 0
                  /\ ct'[w].last.kind = "response" =>
                        ct'[w].last.status \notin {429, 500, 502, 503, 504}]_vars

\* A token arrived with the fourth transmission of a request.
C21_Witness ==
    /\ ct["w1"].pc = "stamp" /\ ct["w1"].ltx = 4
    /\ ct["w1"].last.status = 200 /\ ct["w1"].token = "tokA"

\* The places in the order C22 states: the direct keys, then the keys inside
\* conversation, data and result
ClaimedPlaces ==
    << <<"direct", "token">>, <<"direct", "access_token">>,
       <<"direct", "conversation_token">>,
       <<"conversation", "token">>, <<"conversation", "access_token">>,
       <<"conversation", "conversation_token">>,
       <<"data", "token">>, <<"data", "access_token">>, <<"data", "conversation_token">>,
       <<"result", "token">>, <<"result", "access_token">>,
       <<"result", "conversation_token">> >>

\* The value a payload holds at a place ("absent" inside what is no dict)
ValueAt(payload, place) ==
    IF place[1] = "direct" THEN payload.direct[place[2]]
    ELSE IF payload.nested[place[1]].isdict THEN payload.nested[place[1]].obj[place[2]]
    ELSE "absent"

\* A non-empty string
IsString(v) == v \notin {"absent", "", "nonstr"}

\* C22: token extraction returns the value of the first place, in the order
\* direct token, access_token, conversation_token, then the same keys inside
\* conversation, data, result, that holds a non-empty string, skipping empty
\* strings and values that are not strings; it returns no token when no
\* place holds one.
C22_ExtractOrder ==
    ex.pc = "done" =>
        LET good == {i \in 1..12 : IsString(ValueAt(ex.payload, ClaimedPlaces[i]))} IN
        IF good = {} THEN ex.token = NoToken
        ELSE \E i \in good :
                /\ \A j \in good : i <= j
                /\ ex.token = ValueAt(ex.payload, ClaimedPlaces[i])

\* The direct values are not strings, conversation is not a dict, data holds
\* a token under access_token only, result holds one under token: the token
\* of data is returned.
C22_Witness ==
    /\ ex.pc = "done" /\ ex.token = "data.access_token"
    /\ \A k \in KeySet : ex.payload.direct[k] = "nonstr"
    /\ ~ex.payload.nested["conversation"].isdict
    /\ ex.payload.nested["data"].obj["token"] = "nonstr"
    /\ ex.payload.nested["data"].obj["conversation_token"] = "data.conversation_token"
    /\ ex.payload.nested["result"].obj["token"] = "result.token"

\* C23: when a request for key k has missed the cache and its fetch has
\* returned a token, the request reads the clock, writes the entry of k as
\* that token with the time just read, whatever the entry held, and only then
\* produces its response with the same token; the entries of the other keys
\* stay as they are.
C23_Overwrite ==
    [][\A w \in Workers :
        /\ (ct[w].pc = "fetch" /\ ct'[w].pc = "stamp") =>
              /\ ct'[w].token = ExtractToken(ct'[w].last.payload)
              /\ ct'[w].resp = NoResponse
              /\ TOKEN_CACHE' = TOKEN_CACHE
        /\ (ct[w].pc = "stamp" /\ ct'[w].pc = "store") =>
              /\ ct'[w].ts = now /\ ct'[w].token = ct[w].token
              /\ ct'[w].resp = NoResponse
              /\ TOKEN_CACHE' = TOKEN_CACHE
        /\ (ct[w].pc = "store" /\ ct'[w].pc = "done") =>
              LET k == Strip(OrEmpty(ct[w].raw)) IN
              /\ k \in DOMAIN TOKEN_CACHE'
              /\ TOKEN_CACHE'[k].token = ct[w].token
              /\ TOKEN_CACHE'[k].ts = ct[w].ts /\ ct[w].ts <= now
              /\ ct'[w].resp.status = 200 /\ ct'[w].resp.token = ct[w].token
              /\ \A j \in DOMAIN TOKEN_CACHE :
                    j # k => (j \in DOMAIN TOKEN_CACHE' /\ TOKEN_CACHE'[j] = TOKEN_CACHE[j])
              /\ DOMAIN TOKEN_CACHE' \subseteq DOMAIN TOKEN_CACHE \cup {k}]_vars

\* One request was served tokA from the entry of its key; another request
\* for that key, which had missed, has since replaced the entry by tokB; the
\* entry of the other key is still there.
C23_Witness ==
    \E w1, w2 \in Workers :
        /\ ct[w1].pc = "done" /\ ct[w1].fetched /\ ct[w1].resp.token = "tokB"
        /\ ct[w2].pc = "done" /\ ~ct[w2].fetched /\ ct[w2].resp.token = "tokA"
        /\ ct[w1].cache_key = ct[w2].cache_key
        /\ TOKEN_CACHE[ct[w1].cache_key].token = "tokB"
        /\ Cardinality(DOMAIN TOKEN_CACHE) = 2

\* C25: a request whose fetch fails does not touch the cache: it ends with
\* the 502 answer straight from the fetcher, without a token and without a
\* store; the only step of a request that changes the cache is the store of
\* a fetched token, so a stale entry of the key stays as it was.
C25_FailureKeepsCache ==
    [][\A w \in Workers :
        /\ (ct'[w] # ct[w] /\ ct[w].pc # "store") => TOKEN_CACHE' = TOKEN_CACHE
        /\ (ct[w].pc = "fetch" /\ ct'[w].pc = "done") =>
              /\ ct'[w].resp.status = 502
              /\ ct'[w].resp.token = NoToken
              /\ ct'[w].token = NoToken
        /\ (ct[w].pc # "done" /\ ct'[w].pc = "done" /\ ct'[w].resp.status = 502) =>
              /\ ct[w].pc \in {"idle", "fetch"}
              /\ ct'[w].resp.token = NoToken]_vars

\* A request for a key whose entry is stale (55 seconds old) has been
\* answered 502; the stale entry is still in the cache.
C25_Witness ==
    \E w \in Workers :
        LET k == ct[w].cache_key IN
        /\ ct[w].pc = "done" /\ ct[w].resp.status = 502 /\ ct[w].contacted # <<>>
        /\ k \in DOMAIN TOKEN_CACHE
        /\ TOKEN_CACHE[k].token = "tokA" /\ TOKEN_CACHE[k].ts = 0 /\ now = 55

\* C28: the timestamp stored for a key never decreases from one write to
\* the next.
C28_Original ==
    [][\A k \in DOMAIN TOKEN_CACHE : TOKEN_CACHE'[k].ts >= TOKEN_CACHE[k].ts]_vars

\* The participant name the upstream is given for a key
NameOfKey(k) == IF k = <<>> THEN None ELSE Some(k)

\* C26: a request works under the key that is its stripped name: every
\* upstream call it makes carries that name (none for the key ""), the token
\* it stores comes from those calls and goes under that key only, and a
\* request served from the cache gets the token of the entry of its own key.
C26_KeyIsolation ==
    [][\A w \in Workers :
        LET k == Strip(OrEmpty(ct'[w].raw)) IN
        /\ ct'[w].pc # "idle" => ct'[w].cache_key = k
        /\ ct'[w].pc = "fetch" => ct'[w].participant = NameOfKey(k)
        /\ \A i \in 1..Len(ct'[w].contacted) :
              ct'[w].contacted[i].participant = NameOfKey(ct'[w].cache_key)
        /\ (ct[w].pc = "fetch" /\ ct'[w].pc = "stamp") =>
              /\ ct'[w].token = ExtractToken(ct'[w].last.payload)
              /\ ct'[w].contacted[Len(ct'[w].contacted)].participant = NameOfKey(k)
        /\ (ct[w].pc = "store" /\ ct'[w].pc = "done") =>
              /\ ct[w].contacted # <<>>
              /\ TOKEN_CACHE'[k].token = ct[w].token
              /\ \A j \in DOMAIN TOKEN_CACHE' \ {k} :
                    j \in DOMAIN TOKEN_CACHE /\ TOKEN_CACHE'[j] = TOKEN_CACHE[j]
        /\ (ct[w].pc = "idle" /\ ct'[w].pc = "done" /\ ~ct'[w].fetched) =>
              /\ k \in DOMAIN TOKEN_CACHE
              /\ ct'[w].resp.token = TOKEN_CACHE[k].token]_vars

\* The cache holds an entry for the key "" and one for the key "a"; a
\* request named " a " has been served the entry of "a" while a request
\* without name has fetched without forwarding a name.
C26_Witness ==
    \E w1, w2 \in Workers :
        /\ {<<>>, <<"a">>} \subseteq DOMAIN TOKEN_CACHE
        /\ ct[w1].pc = "done" /\ ~ct[w1].fetched
        /\ ct[w1].raw = Some(<<" ", "a", " ">>)
        /\ ct[w1].resp.token = TOKEN_CACHE[<<"a">>].token
        /\ ct[w2].pc = "store" /\ ct[w2].raw = None
        /\ ct[w2].contacted # <<>>
        /\ \A i \in 1..Len(ct[w2].contacted) : ct[w2].contacted[i].participant = None

\* C27: whenever an e-mail thread sends, the id in its link is a key of the
\* blueprint store and the record under it holds the recipient the thread
\* sends to.
C27_Original ==
    [][\A i \in 1..Len(jobs) :
        (i <= Len(jobs') /\ jobs'[i].sends # jobs[i].sends) =>
            /\ jobs[i].link.path \in DOMAIN blueprint_storage
            /\ blueprint_storage[jobs[i].link.path].email = jobs[i].email]_vars

\* C24: an intake that is answered with 200 starts exactly one e-mail
\* thread and nothing else starts one; a started thread is never removed or
\* altered by another request or thread, calls _send_email at most once,
\* and, when the process keeps running, it does leave its sleep and call it.
C24_JobRuns ==
    /\ [][/\ \A w \in Workers :
              (up[w].pc = "summarize" /\ up'[w].pc = "done") =>
                  /\ up'[w].resp.status = 200
                  /\ Len(jobs') = Len(jobs) + 1
                  /\ jobs'[Len(jobs')].pc = "sleeping"
                  /\ jobs'[Len(jobs')].email = up[w].email
                  /\ jobs'[Len(jobs')].link = up'[w].resp.blueprint_url
          /\ (Len(jobs') # Len(jobs)) =>
                (\E w \in Workers : up[w].pc = "summarize" /\ up'[w].pc = "done")
          /\ \A i \in 1..Len(jobs) :
                /\ i <= Len(jobs')
                /\ jobs'[i].email = jobs[i].email
                /\ jobs'[i].link = jobs[i].link
                /\ jobs'[i].started = jobs[i].started
                /\ jobs'[i].delay_seconds = jobs[i].delay_seconds
                /\ (jobs'[i].pc = "sleeping") => (jobs[i].pc = "sleeping")
                /\ (jobs'[i] # jobs[i]) =>
                      (\A j \in 1..Len(jobs) : (j # i) => (jobs'[j] = jobs[j]))]_vars
    /\ \A i \in 1..MaxIntakes :
          (Len(jobs) >= i) ~> (Len(jobs) >= i /\ jobs[i].pc # "sleeping")

\* Two threads started at different instants have both called _send_email
\* and finished, after an intake that was refused started none.
C24_Witness ==
    /\ Len(jobs) >= 2
    /\ jobs[1].started = 0 /\ jobs[2].started = 1
    /\ jobs[1].pc = "done" /\ jobs[2].pc = "done"
    /\ jobs[1].sends # <<>> /\ jobs[2].sends # <<>>
    /\ now = 11

====
